---- MODULE Spec2Model ----
(***************************************************************************)
(* Model of the similarity-graph tools of the repository:                  *)
(*   find_anchors.py  (embedding store, graph, node strengths, anchors,    *)
(*                     outliers, bridges)                                  *)
(*   find_similar.py  (near-duplicate report)                              *)
(*                                                                         *)
(* Numbers.  Link values and vector components are JSON numbers; the model *)
(* uses integers.  A link value v stands for v/100 (threshold 0.8 is 80).  *)
(* The midpoint (a+b)/2 is kept doubled (a+b) and every store vector is    *)
(* doubled before it is subtracted, so each distance key of the model is   *)
(* exactly 4 times the key the code computes: the order of the keys, which *)
(* is all that min() reads, is the same.                                   *)
(*                                                                         *)
(* None is the empty sequence <<>> and a returned header h is <<h>>.       *)
(***************************************************************************)
EXTENDS Integers, Sequences, FiniteSets, TLC

VARIABLES
    pc,              \* position of the running script
    lines,           \* the embeddings file, one entry per line (input)
    lineNo,          \* next line of the file to be read
    embeddings,      \* the dict `embeddings`, in insertion order
    warnings,        \* line numbers reported on stderr while loading
    links,           \* data["links"] read from stdin (input)
    linkNo,          \* next link of the for loop
    G,               \* the networkx graph: nodes in insertion order, edges
    node_strengths,  \* the dict `node_strengths`, as its items() in order
    sorted_anchors,  \* the list `sorted_anchors`
    sorted_outliers, \* the list `sorted_outliers`
    anchor_report,   \* printed anchor lines
    outlier_report,  \* printed outlier lines
    ai,              \* position of the outer bridge loop (anchors)
    oi,              \* position of the inner bridge loop (outliers)
    visited,         \* the (anchor, outlier) pairs passed to find_bridges
    call,            \* the latest call of find_bridges and what it did
    bridge_report,   \* printed bridge lines
    similar_report   \* find_similar.py: printed pairs

vars == <<pc, lines, lineNo, embeddings, warnings, links, linkNo, G,
          node_strengths, sorted_anchors, sorted_outliers, anchor_report,
          outlier_report, ai, oi, visited, call, bridge_report,
          similar_report>>

----------------------------------------------------------------------------
(* Bounds of the model *)

\* longest embeddings file (lines)
MaxLines == 3
\* longest list of links over the small header set
MaxLinks == 2
\* longest list of links given to find_similar.py
MaxSimilarLinks == 3
\* most leaves of a star-shaped list of links
MaxLeaves == 10

(* Program constants *)

\* sorted_anchors[:5], sorted_outliers[:5]
TopK == 5
\* sorted_anchors[:3], sorted_outliers[:3] of the bridge loops
BridgeK == 3
\* threshold = 0.8, in hundredths
threshold == 80

----------------------------------------------------------------------------
(* Helpers: Python values *)

None == <<>>

Min(a, b) == IF a <= b THEN a ELSE b

\* s[:k]
Take(s, k) == SubSeq(s, 1, Min(k, Len(s)))

Range(s) == {s[i] : i \in 1..Len(s)}

Reverse(s) == [i \in 1..Len(s) |-> s[Len(s) + 1 - i]]

\* truth value of `if bridge:` : None and the empty string are false
Truthy(bridge) == bridge # None /\ bridge[1] # ""

----------------------------------------------------------------------------
(* The embedding store: for line in f ... embeddings[obj["header"]] = ... *)

Record(h, v) == [kind |-> "record", header |-> h, embedding |-> v]
\* a line json.loads rejects (JSONDecodeError), e.g. a blank or cut line
Garbage      == [kind |-> "garbage", header |-> "", embedding |-> <<>>]
\* a line that is JSON but has no "header"/"embedding" key (KeyError)
NoKey        == [kind |-> "nokey", header |-> "", embedding |-> <<>>]

Keys(store) == [i \in 1..Len(store) |-> store[i].header]

Has(store, h) == \E i \in 1..Len(store) : store[i].header = h

IndexOf(store, h) == CHOOSE i \in 1..Len(store) : store[i].header = h

\* embeddings[h]
Get(store, h) == store[IndexOf(store, h)].embedding

\* embeddings[h] = v : a key already present keeps its place in the order
Put(store, h, v) ==
    IF Has(store, h)
    THEN [store EXCEPT ![IndexOf(store, h)].embedding = v]
    ELSE Append(store, [header |-> h, embedding |-> v])

----------------------------------------------------------------------------
(* The graph: G.add_edge(source, target, weight=value) *)

EmptyGraph == [nodes |-> <<>>, edges |-> {}]

AddNode(nodes, n) == IF n \in Range(nodes) THEN nodes ELSE Append(nodes, n)

\* an undirected edge is its set of end points (one element for a self-loop);
\* adding an edge that exists overwrites its weight
add_edge(g, u, v, w) ==
    [nodes |-> AddNode(AddNode(g.nodes, u), v),
     edges |-> {e \in g.edges : e.ends # {u, v}}
                 \cup {[ends |-> {u, v}, weight |-> w]}]

RECURSIVE SumWeights(_)
SumWeights(E) ==
    IF E = {} THEN 0
    ELSE LET e == CHOOSE x \in E : TRUE
         IN  e.weight + SumWeights(E \ {e})

\* G.edges(node, data=True): every edge at node, a self-loop once
EdgesAt(g, node) == {e \in g.edges : node \in e.ends}

\* the number of edges at node instead of the sum of their weights
StrengthUnweighted(g, node) == Cardinality(EdgesAt(g, node))

\* sum(d["weight"] for _, _, d in G.edges(node, data=True))
Strength(g, node) == SumWeights(EdgesAt(g, node))

\* node_strengths.items(), in G.nodes order
NodeStrengths(g) ==
    [i \in 1..Len(g.nodes) |->
        [node |-> g.nodes[i], strength |-> Strength(g, g.nodes[i])]]

----------------------------------------------------------------------------
(* sorted(items, key=lambda x: x[1], reverse=...) : a stable sort *)

\* x goes before e only when its key is strictly on the wanted side
GoesBefore(x, e, reverse) ==
    IF reverse THEN x.strength > e.strength ELSE x.strength < e.strength

\* insert x behind every element it does not go strictly before
RECURSIVE InsertStable(_, _, _)
InsertStable(x, s, reverse) ==
    IF s = <<>> THEN <<x>>
    ELSE IF GoesBefore(x, s[Len(s)], reverse)
         THEN Append(InsertStable(x, SubSeq(s, 1, Len(s) - 1), reverse),
                     s[Len(s)])
         ELSE Append(s, x)

RECURSIVE SortedFrom(_, _, _, _)
SortedFrom(items, i, acc, reverse) ==
    IF i > Len(items) THEN acc
    ELSE SortedFrom(items, i + 1, InsertStable(items[i], acc, reverse), reverse)

Sorted(items, reverse) == SortedFrom(items, 1, <<>>, reverse)

\* a descending order obtained by reversing the ascending one (ties reversed)
SortedAnchorsReversed(items) == Reverse(Sorted(items, FALSE))

\* a descending order whose reverse flag was forgotten
SortedAnchorsAscending(items) == Sorted(items, FALSE)

\* sorted_anchors = sorted(node_strengths.items(), ..., reverse=True)
SortedAnchors(items) == Sorted(items, TRUE)

\* sorted_outliers = sorted(node_strengths.items(), key=lambda x: x[1])
SortedOutliers(items) == Sorted(items, FALSE)

----------------------------------------------------------------------------
(* find_bridges(anchor, outlier) *)

\* if anchor not in embeddings and outlier not in embeddings  (and for or)
MissingEmbeddingBoth(store, anchor, outlier) ==
    ~Has(store, anchor) /\ ~Has(store, outlier)

\* if anchor not in embeddings or outlier not in embeddings
MissingEmbedding(store, anchor, outlier) ==
    ~Has(store, anchor) \/ ~Has(store, outlier)

\* the validity test without its comparison of the lengths
InvalidPairNoLength(anchor_vec, outlier_vec) ==
    anchor_vec = <<>> \/ outlier_vec = <<>>

\* if not anchor_vec or not outlier_vec or len(anchor_vec) != len(outlier_vec)
InvalidPair(anchor_vec, outlier_vec) ==
    \/ anchor_vec = <<>>
    \/ outlier_vec = <<>>
    \/ Len(anchor_vec) # Len(outlier_vec)

\* [(a + b) / 2 for a, b in zip(anchor_vec, outlier_vec)], doubled
Midpoint2(anchor_vec, outlier_vec) ==
    [i \in 1..Min(Len(anchor_vec), Len(outlier_vec)) |->
        anchor_vec[i] + outlier_vec[i]]

\* sum((x - y) ** 2 for x, y in zip(midpoint_vec, vec)), times 4:
\* zip stops at the shorter of the two
RECURSIVE ZipSquares(_, _, _)
ZipSquares(midpoint2, vec, i) ==
    IF i > Min(Len(midpoint2), Len(vec)) THEN 0
    ELSE (midpoint2[i] - 2 * vec[i]) * (midpoint2[i] - 2 * vec[i])
         + ZipSquares(midpoint2, vec, i + 1)

\* the key of min(): ... if embeddings[n] else float('inf')
DistanceKey(midpoint2, vec) ==
    IF vec = <<>> THEN [inf |-> TRUE, d |-> 0]
    ELSE [inf |-> FALSE, d |-> ZipSquares(midpoint2, vec, 1)]

KeyLess(k1, k2) == ~k1.inf /\ (k2.inf \/ k1.d < k2.d)

\* min(embeddings.keys(), key=...): the first key of the least value
RECURSIVE MinFrom(_, _, _, _)
MinFrom(store, midpoint2, i, best) ==
    IF i > Len(store) THEN best
    ELSE MinFrom(store, midpoint2, i + 1,
                 IF KeyLess(DistanceKey(midpoint2, store[i].embedding),
                            DistanceKey(midpoint2, store[best].embedding))
                 THEN i ELSE best)

ClosestNode(store, midpoint2) == store[MinFrom(store, midpoint2, 2, 1)].header

NoBridge == [ret |-> None, midpoint_vec |-> None, scanned |-> <<>>,
             raised |-> FALSE]

\* embeddings[anchor] of a key that is not there
KeyError == [ret |-> None, midpoint_vec |-> None, scanned |-> <<>>,
             raised |-> TRUE]

\* what one call returns, with the midpoint it computed (None when it
\* computed none) and the keys its scan went through
find_bridges(store, anchor, outlier) ==
    IF MissingEmbedding(store, anchor, outlier) THEN NoBridge
    ELSE IF ~Has(store, anchor) \/ ~Has(store, outlier) THEN KeyError
    ELSE LET anchor_vec  == Get(store, anchor)
             outlier_vec == Get(store, outlier)
         IN  IF InvalidPair(anchor_vec, outlier_vec) THEN NoBridge
             ELSE LET midpoint2 == Midpoint2(anchor_vec, outlier_vec)
                  IN  [ret          |-> <<ClosestNode(store, midpoint2)>>,
                       midpoint_vec |-> <<midpoint2>>,
                       scanned      |-> Keys(store),
                       raised       |-> FALSE]

----------------------------------------------------------------------------
(* Inputs *)

LinePool ==
    { Record("A", <<0, 0>>), Record("B", <<2, 2>>), Record("M", <<1, 1>>),
      Record("", <<1, 1>>),  Record("S", <<1>>),    Record("A", <<>>),
      Record("B", <<0, 1>>), Garbage, NoKey }

SeqsUpTo(S, n) == UNION {[1..k -> S] : k \in 0..n}

Files == SeqsUpTo(LinePool, MaxLines)

Link(s, t, v) == [source |-> s, target |-> t, value |-> v]

\* graphs the bridge report is tried on with every file
FewLinks ==
    { <<Link("A", "B", 1)>>,
      <<Link("A", "B", 2), Link("B", "Z", 1)>>,
      <<Link("A", "B", 3), Link("A", "M", 2), Link("A", "S", 1)>> }

\* file every list of links is tried with
FewFiles == { <<Record("A", <<0, 0>>), Garbage, Record("B", <<2, 2>>)>> }

SmallHeaders == {"A", "B", "C"}
SmallValues  == {1, 2}
SmallLinks ==
    {Link(s, t, v) : s \in SmallHeaders, t \in SmallHeaders, v \in SmallValues}

LeafName == <<"L01", "L02", "L03", "L04", "L05", "L06", "L07", "L08",
              "L09", "L10", "L11", "L12">>

\* a star: leaf i hangs on the hub with value i, or i + 1 when i is in up;
\* the hub is the source of every link, or the target of every link
StarLinks(n, up, hubFirst) ==
    [i \in 1..n |->
        LET v == IF i \in up THEN i + 1 ELSE i
        IN  IF hubFirst THEN Link("H", LeafName[i], v)
                        ELSE Link(LeafName[i], "H", v)]

Stars ==
    {StarLinks(n, up, hf) :
        n \in 0..MaxLeaves, up \in SUBSET (1..MaxLeaves), hf \in BOOLEAN}

\* longer lists: a weight overwritten inside a path, a triangle of equal
\* weights, a triangle with a self-loop, six nodes in two joined paths
LongerLinkLists ==
    { <<Link("A", "B", 1), Link("B", "C", 2), Link("B", "A", 2)>>,
      <<Link("A", "B", 1), Link("B", "C", 1), Link("C", "A", 1)>>,
      <<Link("A", "B", 2), Link("B", "C", 1), Link("C", "A", 1),
        Link("A", "A", 1)>>,
      <<Link("A", "B", 1), Link("C", "D", 1), Link("E", "F", 1),
        Link("D", "E", 2), Link("B", "C", 3)>> }

LinkLists == SeqsUpTo(SmallLinks, MaxLinks) \cup Stars \cup LongerLinkLists

SimilarValues == {50, 79, 80, 95}
SimilarLinks ==
    {Link("X", t, v) : t \in {"Y", "Z"}, v \in SimilarValues}

NoCall == [anchor |-> "", outlier |-> "", ret |-> None, midpoint_vec |-> None,
           scanned |-> <<>>, raised |-> FALSE]

----------------------------------------------------------------------------
(* find_anchors.py *)

Fresh ==
    /\ lineNo = 1 /\ embeddings = <<>> /\ warnings = <<>>
    /\ linkNo = 1 /\ G = EmptyGraph
    /\ node_strengths = <<>> /\ sorted_anchors = <<>> /\ sorted_outliers = <<>>
    /\ anchor_report = <<>> /\ outlier_report = <<>>
    /\ ai = 1 /\ oi = 1 /\ visited = <<>> /\ call = NoCall
    /\ bridge_report = <<>> /\ similar_report = <<>>

Init ==
    /\ pc = "load"
    /\ \/ lines \in Files /\ links \in FewLinks
       \/ lines \in FewFiles /\ links \in LinkLists
    /\ Fresh

\* obj = json.loads(line); embeddings[obj["header"]] = obj["embedding"]
LoadRecord ==
    /\ pc = "load" /\ lineNo <= Len(lines)
    /\ lines[lineNo].kind = "record"
    /\ embeddings' = Put(embeddings, lines[lineNo].header,
                         lines[lineNo].embedding)
    /\ lineNo' = lineNo + 1
    /\ UNCHANGED <<pc, lines, warnings, links, linkNo, G, node_strengths,
                   sorted_anchors, sorted_outliers, anchor_report,
                   outlier_report, ai, oi, visited, call, bridge_report,
                   similar_report>>

\* except json.JSONDecodeError: print(f"Error parsing line: {line}")
LoadDecodeError ==
    /\ pc = "load" /\ lineNo <= Len(lines)
    /\ lines[lineNo].kind = "garbage"
    /\ warnings' = Append(warnings, lineNo)
    /\ lineNo' = lineNo + 1
    /\ UNCHANGED <<pc, lines, embeddings, links, linkNo, G, node_strengths,
                   sorted_anchors, sorted_outliers, anchor_report,
                   outlier_report, ai, oi, visited, call, bridge_report,
                   similar_report>>

\* obj["header"] raises KeyError, which no except clause catches
LoadKeyError ==
    /\ pc = "load" /\ lineNo <= Len(lines)
    /\ lines[lineNo].kind = "nokey"
    /\ pc' = "crashed"
    /\ UNCHANGED <<lines, lineNo, embeddings, warnings, links, linkNo, G,
                   node_strengths, sorted_anchors, sorted_outliers,
                   anchor_report, outlier_report, ai, oi, visited, call,
                   bridge_report, similar_report>>

\* data = json.load(sys.stdin); G = nx.Graph()
ReadGraph ==
    /\ pc = "load" /\ lineNo > Len(lines)
    /\ pc' = "graph"
    /\ G' = EmptyGraph
    /\ UNCHANGED <<lines, lineNo, embeddings, warnings, links, linkNo,
                   node_strengths, sorted_anchors, sorted_outliers,
                   anchor_report, outlier_report, ai, oi, visited, call,
                   bridge_report, similar_report>>

\* for link in data["links"]: G.add_edge(...)
AddEdge ==
    /\ pc = "graph" /\ linkNo <= Len(links)
    /\ G' = add_edge(G, links[linkNo].source, links[linkNo].target,
                     links[linkNo].value)
    /\ linkNo' = linkNo + 1
    /\ UNCHANGED <<pc, lines, lineNo, embeddings, warnings, links,
                   node_strengths, sorted_anchors, sorted_outliers,
                   anchor_report, outlier_report, ai, oi, visited, call,
                   bridge_report, similar_report>>

\* node_strengths, sorted_anchors and the anchor lines
RankAnchors ==
    /\ pc = "graph" /\ linkNo > Len(links)
    /\ node_strengths' = NodeStrengths(G)
    /\ sorted_anchors' = SortedAnchors(node_strengths')
    /\ anchor_report' = Take(sorted_anchors', TopK)
    /\ pc' = "outliers"
    /\ UNCHANGED <<lines, lineNo, embeddings, warnings, links, linkNo, G,
                   sorted_outliers, outlier_report, ai, oi, visited, call,
                   bridge_report, similar_report>>

\* sorted_outliers and the outlier lines
RankOutliers ==
    /\ pc = "outliers"
    /\ sorted_outliers' = SortedOutliers(node_strengths)
    /\ outlier_report' = Take(sorted_outliers', TopK)
    /\ pc' = "bridges"
    /\ UNCHANGED <<lines, lineNo, embeddings, warnings, links, linkNo, G,
                   node_strengths, sorted_anchors, anchor_report, ai, oi,
                   visited, call, bridge_report, similar_report>>

TopAnchors  == Take(sorted_anchors, BridgeK)
TopOutliers == Take(sorted_outliers, BridgeK)

\* one turn of the inner loop: bridge = find_bridges(anchor, outlier);
\* if bridge: print(...)
BridgePair ==
    /\ pc = "bridges" /\ ai <= Len(TopAnchors) /\ oi <= Len(TopOutliers)
    /\ LET anchor  == TopAnchors[ai].node
           outlier == TopOutliers[oi].node
           r       == find_bridges(embeddings, anchor, outlier)
       IN  /\ visited' = Append(visited, <<anchor, outlier>>)
           /\ call' = [anchor |-> anchor, outlier |-> outlier, ret |-> r.ret,
                       midpoint_vec |-> r.midpoint_vec,
                       scanned |-> r.scanned, raised |-> r.raised]
           /\ pc' = IF r.raised THEN "crashed" ELSE pc
           /\ bridge_report' =
                 IF ~r.raised /\ Truthy(r.ret)
                 THEN Append(bridge_report,
                             [bridge |-> r.ret[1], anchor |-> anchor,
                              outlier |-> outlier])
                 ELSE bridge_report
    /\ IF oi < Len(TopOutliers)
       THEN ai' = ai /\ oi' = oi + 1
       ELSE ai' = ai + 1 /\ oi' = 1
    /\ UNCHANGED <<lines, lineNo, embeddings, warnings, links, linkNo, G,
                   node_strengths, sorted_anchors, sorted_outliers,
                   anchor_report, outlier_report, similar_report>>

\* both loops are exhausted and the script ends
Finish ==
    /\ pc = "bridges" /\ ai > Len(TopAnchors)
    /\ pc' = "done"
    /\ UNCHANGED <<lines, lineNo, embeddings, warnings, links, linkNo, G,
                   node_strengths, sorted_anchors, sorted_outliers,
                   anchor_report, outlier_report, ai, oi, visited, call,
                   bridge_report, similar_report>>

Next ==
    \/ LoadRecord
    \/ LoadDecodeError
    \/ LoadKeyError
    \/ ReadGraph
    \/ AddEdge
    \/ RankAnchors
    \/ RankOutliers
    \/ BridgePair
    \/ Finish

Spec == Init /\ [][Next]_vars

----------------------------------------------------------------------------
(* find_similar.py *)

InitSimilar ==
    /\ pc = "similar"
    /\ lines = <<>>
    /\ links \in SeqsUpTo(SimilarLinks, MaxSimilarLinks)
    /\ Fresh

\* if link["value"] > threshold  (a strict comparison)
AboveThresholdStrict(link) == link.value > threshold

\* if link["value"] >= threshold
AboveThreshold(link) == link.value >= threshold

\* one turn of: for link in data["links"]: if ...: print(...)
SimilarLink ==
    /\ pc = "similar" /\ linkNo <= Len(links)
    /\ similar_report' =
          IF AboveThreshold(links[linkNo])
          THEN Append(similar_report, links[linkNo])
          ELSE similar_report
    /\ linkNo' = linkNo + 1
    /\ UNCHANGED <<pc, lines, lineNo, embeddings, warnings, links, G,
                   node_strengths, sorted_anchors, sorted_outliers,
                   anchor_report, outlier_report, ai, oi, visited, call,
                   bridge_report>>

SimilarEnd ==
    /\ pc = "similar" /\ linkNo > Len(links)
    /\ pc' = "done"
    /\ UNCHANGED <<lines, lineNo, embeddings, warnings, links, linkNo, G,
                   node_strengths, sorted_anchors, sorted_outliers,
                   anchor_report, outlier_report, ai, oi, visited, call,
                   bridge_report, similar_report>>

NextSimilar == SimilarLink \/ SimilarEnd

SpecSimilar == InitSimilar /\ [][NextSimilar]_vars

----------------------------------------------------------------------------
(* Properties *)

RECURSIVE TotalStrength(_)
TotalStrength(items) ==
    IF items = <<>> THEN 0
    ELSE items[1].strength + TotalStrength(Tail(items))

StrengthsComputed == pc \in {"outliers", "bridges", "done"}
Ranked            == pc \in {"bridges", "done"}

NoSelfLoop == \A k \in 1..Len(links) : links[k].source # links[k].target

\* C1 as stated: for every graph built from the links, the node strengths
\* add up to twice the sum of the weights of the edges of the graph.
C1_StrengthsTwiceWeights ==
    StrengthsComputed =>
        TotalStrength(node_strengths) = 2 * SumWeights(G.edges)

\* C1 amended: when no link has its source equal to its target, the node
\* strengths add up to twice the sum of the weights of the edges.
C1_StrengthsTwiceWeightsNoSelfLoop ==
    (StrengthsComputed /\ NoSelfLoop) =>
        TotalStrength(node_strengths) = 2 * SumWeights(G.edges)

\* three nodes joined by two edges of different weights
C1_Witness ==
    /\ StrengthsComputed /\ NoSelfLoop
    /\ Len(G.nodes) = 3 /\ Cardinality(G.edges) = 2
    /\ \E e, f \in G.edges : e.weight = 1 /\ f.weight = 2
    /\ TotalStrength(node_strengths) = 2 * SumWeights(G.edges)

----------------------------------------------------------------------------

Called == visited # <<>>

\* the claims' "both headers present, non-empty vectors of equal length"
ValidPair(anchor, outlier) ==
    /\ Has(embeddings, anchor) /\ Has(embeddings, outlier)
    /\ Get(embeddings, anchor) # <<>> /\ Get(embeddings, outlier) # <<>>
    /\ Len(Get(embeddings, anchor)) = Len(Get(embeddings, outlier))

\* twice the elementwise midpoint of two vectors of one length
TwiceMidpoint(a, b) == [i \in 1..Len(a) |-> a[i] + b[i]]

\* 4 times the squared Euclidean distance of v to the midpoint, for a v of
\* the midpoint's length
RECURSIVE SqDist4(_, _)
SqDist4(m2, v) ==
    IF v = <<>> THEN 0
    ELSE (m2[1] - 2 * v[1]) * (m2[1] - 2 * v[1]) + SqDist4(Tail(m2), Tail(v))

\* the entries that have a Euclidean distance to the midpoint
Comparable(m2) ==
    {i \in 1..Len(embeddings) : Len(embeddings[i].embedding) = Len(m2)}

\* the first entry, in store order, of the least distance to the midpoint
Nearest(m2) ==
    CHOOSE i \in Comparable(m2) :
        \A j \in Comparable(m2) :
            LET di == SqDist4(m2, embeddings[i].embedding)
                dj == SqDist4(m2, embeddings[j].embedding)
            IN  di < dj \/ (di = dj /\ i <= j)

\* C2 as stated: a call with both headers present and non-empty vectors of
\* equal length returns the first header, in store order, of minimum squared
\* Euclidean distance to the midpoint; a header whose vector is the midpoint
\* is selected when there is one.
C2_NearestToMidpoint ==
    (Called /\ pc # "crashed" /\ ValidPair(call.anchor, call.outlier)) =>
        LET m2 == TwiceMidpoint(Get(embeddings, call.anchor),
                                Get(embeddings, call.outlier))
        IN  /\ call.ret = <<embeddings[Nearest(m2)].header>>
            /\ (\E i \in Comparable(m2) :
                    SqDist4(m2, embeddings[i].embedding) = 0)
                 => /\ call.ret # None
                    /\ Has(embeddings, call.ret[1])
                    /\ Len(Get(embeddings, call.ret[1])) = Len(m2)
                    /\ SqDist4(m2, Get(embeddings, call.ret[1])) = 0

\* every vector of the store has one length
UniformStore ==
    \A i, j \in 1..Len(embeddings) :
        Len(embeddings[i].embedding) = Len(embeddings[j].embedding)

\* C2 on the stores whose vectors all have one length (not C2 itself)
C2_NearestToMidpointUniform == UniformStore => C2_NearestToMidpoint

\* C3: a call with the anchor or the outlier absent from the store returns
\* None, raises nothing, prints nothing and leaves the store as it was.
C3_AbsentNoBridge ==
    [][(pc = "bridges" /\ visited' # visited
          /\ (~Has(embeddings, call'.anchor) \/ ~Has(embeddings, call'.outlier)))
        => /\ call'.ret = None
           /\ ~call'.raised
           /\ pc' # "crashed"
           /\ embeddings' = embeddings
           /\ bridge_report' = bridge_report]_vars

\* a call whose anchor is in the store and whose outlier is not
C3_Witness ==
    /\ Called /\ pc = "bridges"
    /\ Has(embeddings, call.anchor) /\ ~Has(embeddings, call.outlier)
    /\ call.ret = None

\* C8: a call with both headers present but an empty vector, or vectors of
\* different lengths, returns None; no midpoint is computed, nothing scanned.
C8_InvalidVectorsNoBridge ==
    (/\ Called
     /\ Has(embeddings, call.anchor) /\ Has(embeddings, call.outlier)
     /\ \/ Get(embeddings, call.anchor) = <<>>
        \/ Get(embeddings, call.outlier) = <<>>
        \/ Len(Get(embeddings, call.anchor))
             # Len(Get(embeddings, call.outlier)))
    => /\ call.ret = None
       /\ call.midpoint_vec = None
       /\ call.scanned = <<>>
       /\ ~call.raised
       /\ pc # "crashed"

\* a call with two non-empty vectors of different lengths
C8_Witness ==
    /\ Called
    /\ Has(embeddings, call.anchor) /\ Has(embeddings, call.outlier)
    /\ Get(embeddings, call.anchor) # <<>>
    /\ Get(embeddings, call.outlier) # <<>>
    /\ Len(Get(embeddings, call.anchor)) # Len(Get(embeddings, call.outlier))
    /\ call.ret = None

\* C9 as stated: an entry whose vector has not the midpoint's length is never
\* the bridge in preference to an entry that has (the anchor is one).
C9_MismatchedNeverSelected ==
    (Called /\ call.ret # None) =>
        /\ Has(embeddings, call.ret[1])
        /\ Len(Get(embeddings, call.ret[1])) = Len(call.midpoint_vec[1])

----------------------------------------------------------------------------

NodeOf(items) == [i \in 1..Len(items) |-> items[i].node]

PairwiseDistinctStrengths ==
    \A i, j \in 1..Len(node_strengths) :
        i # j => node_strengths[i].strength # node_strengths[j].strength

\* C5: with at least 10 nodes of pairwise distinct strengths, no header is
\* both in the anchor list and in the outlier list.
C5_AnchorsOutliersDisjoint ==
    (Ranked /\ Len(G.nodes) >= 10 /\ PairwiseDistinctStrengths) =>
        Range(NodeOf(anchor_report)) \cap Range(NodeOf(outlier_report)) = {}

C5_Witness ==
    /\ pc = "done" /\ Len(G.nodes) >= 10 /\ PairwiseDistinctStrengths
    /\ Len(anchor_report) = 5 /\ Len(outlier_report) = 5

Position(n) == CHOOSE i \in 1..Len(G.nodes) : G.nodes[i] = n

\* equal strengths keep the graph's node order
StableTies(s) ==
    \A i, j \in 1..Len(s) :
        (i < j /\ s[i].strength = s[j].strength)
            => Position(s[i].node) < Position(s[j].node)

IsPermutationOfNodes(s) ==
    /\ Len(s) = Len(G.nodes)
    /\ Range(s) = Range(node_strengths)
    /\ Range(NodeOf(s)) = Range(G.nodes)

\* C6: the anchors are in non-increasing and the outliers in non-decreasing
\* order of strength, each a permutation of the nodes, min(5, nodes) of each
\* are reported, and equal strengths stay in node insertion order.
C6_RankingOrder ==
    Ranked =>
        /\ \A i \in 1..(Len(sorted_anchors) - 1) :
              sorted_anchors[i].strength >= sorted_anchors[i + 1].strength
        /\ \A i \in 1..(Len(sorted_outliers) - 1) :
              sorted_outliers[i].strength <= sorted_outliers[i + 1].strength
        /\ IsPermutationOfNodes(sorted_anchors)
        /\ IsPermutationOfNodes(sorted_outliers)
        /\ Len(anchor_report) = Min(5, Len(G.nodes))
        /\ Len(outlier_report) = Min(5, Len(G.nodes))
        /\ anchor_report = SubSeq(sorted_anchors, 1, Len(anchor_report))
        /\ outlier_report = SubSeq(sorted_outliers, 1, Len(outlier_report))
        /\ StableTies(sorted_anchors)
        /\ StableTies(sorted_outliers)

\* more than 5 nodes, two of them of one strength
C6_Witness ==
    /\ pc = "done" /\ Len(G.nodes) > 5
    /\ ~PairwiseDistinctStrengths
    /\ Len(anchor_report) = 5

----------------------------------------------------------------------------

\* C7 as stated: every line that is no record is skipped with a warning and
\* is not fatal; every record before and after it is in the store.
C7_MalformedLinesSkipped ==
    /\ pc # "crashed"
    /\ warnings = SelectSeq([k \in 1..(lineNo - 1) |-> k],
                            LAMBDA k : lines[k].kind # "record")
    /\ pc \notin {"load", "crashed", "similar"} =>
          \A k \in 1..Len(lines) :
              lines[k].kind = "record" => Has(embeddings, lines[k].header)

\* the pairs of the first 3 anchors and the first 3 outliers, anchor-major
CrossPairs ==
    LET na == Min(3, Len(sorted_anchors))
        no == Min(3, Len(sorted_outliers))
    IN  [k \in 1..(na * no) |->
            <<sorted_anchors[((k - 1) \div no) + 1].node,
              sorted_outliers[((k - 1) % no) + 1].node>>]

ValidVisit(p) == ValidPair(p[1], p[2])

\* C10 as stated: the run visits every pair of the first 3 anchors and the
\* first 3 outliers in anchor-major order, prints exactly one line for each
\* pair with both headers in the store and non-empty vectors of one length,
\* none for the others, and ends normally.
C10_BridgeReport ==
    /\ pc = "crashed" => ~Called
    /\ pc = "done" =>
          /\ visited = CrossPairs
          /\ [i \in 1..Len(bridge_report) |->
                <<bridge_report[i].anchor, bridge_report[i].outlier>>]
               = SelectSeq(visited, ValidVisit)

\* C10 on the stores that hold no empty header (not C10 itself)
C10_BridgeReportNamedHeaders ==
    (\A i \in 1..Len(embeddings) : embeddings[i].header # "")
        => C10_BridgeReport

----------------------------------------------------------------------------

====
